---- MODULE Spec2Model ----
(***************************************************************************)
(* State-machine model of the DataTable component                          *)
(* (src/package/DataTable.tsx): row selection with shift-click ranges,     *)
(* the scroll-shadow flags with their throttled recomputation, and the     *)
(* row context menu.                                                       *)
(*                                                                         *)
(* Lengths are held in sub-pixel units: Px units make one CSS pixel, so    *)
(* that Math.round is a real conversion.  Row indexes are 0-based as in    *)
(* the source; TLA+ sequences are 1-based, hence records[i + 1].           *)
(***************************************************************************)
EXTENDS Integers, Sequences, FiniteSets, TLC

VARIABLES
    records,                  \* prop: the visible records
    selectedRecords,          \* prop: the selection list held by the parent
    fetching,                 \* prop: a data fetch is in flight
    tableHeight,              \* useElementSize(tableRef).height
    scrollViewportHeight,     \* useElementSize(scrollViewportRef).height
    tableWidth,               \* useElementSize(tableRef).width
    scrollViewportWidth,      \* useElementSize(scrollViewportRef).width
    scrollTop,                \* scrollViewportRef.current.scrollTop
    scrollLeft,               \* scrollViewportRef.current.scrollLeft
    scrolledToTop,            \* useState
    scrolledToBottom,         \* useState
    scrolledToLeft,           \* useState
    scrolledToRight,          \* useState
    contextMenuInfo,          \* useState: <<>> is null, <<info>> is an open menu
    lastSelectionChangeIndex, \* useState: the anchor, NullIndex when unset
    effects,                  \* passive effects scheduled by the last commit
    throttle,                 \* state of the throttled function of the current render
    timers,                   \* closures of earlier renders whose trailing call is pending
    hist,                     \* history: the last user event
    calc,                     \* history: what the recomputation that just ran has read
    sinceInvoke,              \* ms since the last scroll-triggered recomputation, up to ThrottleWait
    invokeGap,                \* history: sinceInvoke when that recomputation started
    waitLeft,                 \* ms until the throttled function of this render may invoke again
    staleLeft                 \* ms left on the timers of the closures in timers

selVars    == <<records, selectedRecords, lastSelectionChangeIndex>>
sizeVars   == <<tableHeight, scrollViewportHeight, tableWidth, scrollViewportWidth>>
offsetVars == <<scrollTop, scrollLeft>>
flagVars   == <<scrolledToTop, scrolledToBottom, scrolledToLeft, scrolledToRight>>
vars == <<records, selectedRecords, fetching, tableHeight, scrollViewportHeight,
          tableWidth, scrollViewportWidth, scrollTop, scrollLeft, scrolledToTop,
          scrolledToBottom, scrolledToLeft, scrolledToRight, contextMenuInfo,
          lastSelectionChangeIndex, effects, throttle, timers, hist, calc,
          sinceInvoke, invokeGap, waitLeft, staleLeft>>
timeVars == <<sinceInvoke, invokeGap, waitLeft, staleLeft>>

-----------------------------------------------------------------------------
(* Bounds of the model *)

\* longest selection list the parent is given
MaxSel == 4
\* most closures of earlier renders with a trailing call pending at once
MaxOrphans == 1
\* sub-pixel units per CSS pixel
Px == 2
\* ms by which the clock of the timed specification advances in one step
TickMs == 100

-----------------------------------------------------------------------------
(* Record keys: get(record, idAccessor) *)

\* useState<number | null>(null): the unset anchor
NullIndex == -1

\* throttle(onScrollPositionChange, 200, ...): the wait in ms
ThrottleWait == 200

\* a key read from a record that has the id field
Id(s) == [def |-> TRUE, s |-> s]
\* get(record, idAccessor) of a record without the id field
Undefined == [def |-> FALSE, s |-> ""]

Rec(k) == [id |-> k]
Get(record) == record.id

RECURSIVE MapGet(_)
MapGet(list) ==
    IF list = <<>> THEN <<>> ELSE <<Get(Head(list))>> \o MapGet(Tail(list))

\* Array.prototype.includes (SameValueZero: undefined matches undefined)
Includes(ids, id) == \E n \in 1..Len(ids) : ids[n] = id

\* Array.prototype.join turns undefined into the empty string
ToStr(k) == IF k.def THEN k.s ELSE ""

RECURSIVE Join(_)
Join(ids) ==
    IF ids = <<>> THEN ""
    ELSE IF Len(ids) = 1 THEN ToStr(ids[1])
    ELSE ToStr(ids[1]) \o ":" \o Join(Tail(ids))

\* lodash uniqBy: the first record of each key, in order
RECURSIVE UniqByFrom(_, _)
UniqByFrom(list, seen) ==
    IF list = <<>> THEN <<>>
    ELSE IF Get(Head(list)) \in seen THEN UniqByFrom(Tail(list), seen)
    ELSE <<Head(list)>> \o UniqByFrom(Tail(list), seen \cup {Get(Head(list))})

\* mutant: no record is dropped
UniqByNone(list) == list

UniqBy(list) == UniqByFrom(list, {})

\* Array.prototype.filter keeping the records whose key is not in ids
RECURSIVE FilterOut(_, _)
FilterOut(list, ids) ==
    IF list = <<>> THEN <<>>
    ELSE IF Includes(ids, Get(Head(list))) THEN FilterOut(Tail(list), ids)
    ELSE <<Head(list)>> \o FilterOut(Tail(list), ids)

\* lodash differenceBy(list, values, get)
DifferenceBy(list, values) == FilterOut(list, MapGet(values))

-----------------------------------------------------------------------------
(* Derived values of one render *)

recordIdsOf(rs) == MapGet(rs)
recordIds == recordIdsOf(records)
selectedRecordIds == MapGet(selectedRecords)

\* recordIds?.join(':') || ''
RecordIdsString(rs) == Join(recordIdsOf(rs))

hasRecordsAndSelectedRecordsOf(sel) == Len(sel) > 0

\* mutant: some instead of every
allRecordsSelectedSome(rs, sel) ==
    /\ hasRecordsAndSelectedRecordsOf(sel)
    /\ \E n \in 1..Len(rs) : Includes(MapGet(sel), Get(rs[n]))

allRecordsSelectedOf(rs, sel) ==
    /\ hasRecordsAndSelectedRecordsOf(sel)
    /\ \A n \in 1..Len(rs) : Includes(MapGet(sel), Get(rs[n]))

allRecordsSelected == allRecordsSelectedOf(records, selectedRecords)

someRecordsSelected ==
    /\ hasRecordsAndSelectedRecordsOf(selectedRecords)
    /\ \E n \in 1..Len(records) : Includes(selectedRecordIds, Get(records[n]))

\* selectedRecordIds?.includes(recordId) || false, for the row at index i
selectedOf(rs, sel, i) == Includes(MapGet(sel), Get(rs[i + 1]))

-----------------------------------------------------------------------------
(* Selection handlers: the list handed to onSelectedRecordsChange *)

\* mutant: an all-selected page clears the whole selection
HeaderSelectionClear(rs, sel) ==
    IF allRecordsSelectedOf(rs, sel)
    THEN <<>>
    ELSE UniqBy(sel \o rs)

\* header checkbox
HeaderSelection(rs, sel) ==
    IF allRecordsSelectedOf(rs, sel)
    THEN FilterOut(sel, recordIdsOf(rs))
    ELSE UniqBy(sel \o rs)

\* records.filter((_, index) => ...) of the shift branch
RECURSIVE RecordsIntervalFrom(_, _, _, _)
RecordsIntervalFrom(rs, n, lo, hi) ==
    IF n > Len(rs) THEN <<>>
    ELSE (IF n - 1 >= lo /\ n - 1 <= hi THEN <<rs[n]>> ELSE <<>>)
         \o RecordsIntervalFrom(rs, n + 1, lo, hi)

\* mutant: the interval is taken from the anchor upwards only
RecordsIntervalForward(rs, anchor, recordIndex) ==
    RecordsIntervalFrom(rs, 1, anchor, recordIndex)

RecordsInterval(rs, anchor, recordIndex) ==
    IF recordIndex > anchor
    THEN RecordsIntervalFrom(rs, 1, anchor, recordIndex)
    ELSE RecordsIntervalFrom(rs, 1, recordIndex, anchor)

\* the condition of the shift branch
RangeBranch(anchor, shiftKey) == shiftKey /\ anchor # NullIndex

\* mutant: a shift-click that finds no anchor leaves the anchor unset
NextAnchorRangeOnly(anchor, recordIndex, shiftKey) ==
    IF shiftKey /\ anchor = NullIndex THEN NullIndex ELSE recordIndex

\* setLastSelectionChangeIndex(recordIndex), after either branch
NextAnchor(anchor, recordIndex, shiftKey) == recordIndex

\* removes the first record of the key only
RECURSIVE RemoveFirst(_, _)
RemoveFirst(list, id) ==
    IF list = <<>> THEN <<>>
    ELSE IF Get(Head(list)) = id THEN Tail(list)
    ELSE <<Head(list)>> \o RemoveFirst(Tail(list), id)

\* mutant: deselecting a row splices one record out of the selection
RowSelectionSplice(rs, sel, anchor, recordIndex, shiftKey) ==
    IF RangeBranch(anchor, shiftKey)
    THEN IF selectedOf(rs, sel, recordIndex)
         THEN DifferenceBy(sel, RecordsInterval(rs, anchor, recordIndex))
         ELSE UniqBy(sel \o RecordsInterval(rs, anchor, recordIndex))
    ELSE IF selectedOf(rs, sel, recordIndex)
         THEN RemoveFirst(sel, Get(rs[recordIndex + 1]))
         ELSE UniqBy(sel \o <<rs[recordIndex + 1]>>)

\* row checkbox of the row at recordIndex
RowSelection(rs, sel, anchor, recordIndex, shiftKey) ==
    IF RangeBranch(anchor, shiftKey)
    THEN IF selectedOf(rs, sel, recordIndex)
         THEN DifferenceBy(sel, RecordsInterval(rs, anchor, recordIndex))
         ELSE UniqBy(sel \o RecordsInterval(rs, anchor, recordIndex))
    ELSE IF selectedOf(rs, sel, recordIndex)
         THEN FilterOut(sel, <<Get(rs[recordIndex + 1])>>)
         ELSE UniqBy(sel \o <<rs[recordIndex + 1]>>)

-----------------------------------------------------------------------------
(* Scroll flags *)

\* Math.round of a length held in sub-pixel units, in pixels (halves round up)
Round(x) == (2 * x + Px) \div (2 * Px)

\* what a render's closures capture
Env(f, th, vh, tw, vw) ==
    [fetching |-> f, tableHeight |-> th, scrollViewportHeight |-> vh,
     tableWidth |-> tw, scrollViewportWidth |-> vw]

RenderEnv ==
    Env(fetching, tableHeight, scrollViewportHeight, tableWidth, scrollViewportWidth)

\* mutant: the test for vertical overflow is the equality of the horizontal half
VerticalFlagsEqual(env, top) ==
    IF env.fetching \/ env.tableHeight = env.scrollViewportHeight
    THEN <<TRUE, TRUE>>
    ELSE <<top = 0,
           Round(env.tableHeight - top) = Round(env.scrollViewportHeight)>>

\* mutant: the bottom test compares the heights without the scroll offset
VerticalFlagsNoOffset(env, top) ==
    IF env.fetching \/ env.tableHeight <= env.scrollViewportHeight
    THEN <<TRUE, TRUE>>
    ELSE <<top = 0,
           Round(env.tableHeight) = Round(env.scrollViewportHeight)>>

\* the vertical half of onScrollPositionChange: <<scrolledToTop, scrolledToBottom>>
VerticalFlags(env, top) ==
    IF env.fetching \/ env.tableHeight <= env.scrollViewportHeight
    THEN <<TRUE, TRUE>>
    ELSE <<top = 0,
           Round(env.tableHeight - top) = Round(env.scrollViewportHeight)>>

\* the horizontal half of onScrollPositionChange: <<scrolledToLeft, scrolledToRight>>
HorizontalFlags(env, left) ==
    IF env.fetching \/ env.tableWidth = env.scrollViewportWidth
    THEN <<TRUE, TRUE>>
    ELSE <<left = 0,
           Round(env.tableWidth - left) = Round(env.scrollViewportWidth)>>

\* onScrollPositionChange run in the closure env, reading the ref's offsets
OnScrollPositionChange(env, menu, top, left) ==
    [menu   |-> IF ~env.fetching THEN <<>> ELSE menu,
     top    |-> VerticalFlags(env, top)[1],
     bottom |-> VerticalFlags(env, top)[2],
     left   |-> HorizontalFlags(env, left)[1],
     right  |-> HorizontalFlags(env, left)[2]]

\* props handed to DataTableScrollArea and DataTableHeader
bottomShadowVisible == ~scrolledToBottom
headerBottomShadowVisible == ~scrolledToTop

-----------------------------------------------------------------------------
(* Inputs *)

recA == Rec(Id("a"))
recB == Rec(Id("b"))
recC == Rec(Id("c"))
recD == Rec(Id("d"))
recE == Rec(Id("e"))
recBC == Rec(Id("b:c"))
recNoId == Rec(Undefined)

\* record lists the parent supplies; the second joins to the same string as the
\* first, and so do the last two
FiveRecords == <<recA, recB, recC, recD, recE>>

RecordLists == {FiveRecords, <<recA, recBC, recD, recE>>, <<recNoId>>, <<>>}

InitialSelections == {<<>>, <<recA, recA>>}

\* records of the scroll specification
ScrollRecords == <<recA, recB>>

\* rowContextMenu.disabled: the keys whose rows have no menu
MenuDisabledIds == {Id("b")}

Layout(th, vh, tw, vw) ==
    [tableHeight |-> th, scrollViewportHeight |-> vh,
     tableWidth |-> tw, scrollViewportWidth |-> vw]

\* measured sizes: not yet measured, exact fit, vertical overflow, overflow on
\* both axes with a sub-pixel height, content smaller than the viewport
Layouts ==
    {Layout(0, 0, 0, 0),
     Layout(500 * Px, 500 * Px, 500 * Px, 500 * Px),
     Layout(600 * Px, 500 * Px, 500 * Px, 500 * Px),
     Layout(600 * Px + 1, 500 * Px, 600 * Px, 500 * Px),
     Layout(400 * Px, 500 * Px, 400 * Px, 500 * Px)}

\* scroll offsets: at the start, two places in between, at the end of the
\* overflowing layouts
ScrollTops == {0, 40 * Px, 80 * Px, 100 * Px, 100 * Px + 1}
ScrollLefts == {0, 50 * Px, 100 * Px}

\* the furthest scroll offset: what the content exceeds the viewport by
MaxOffset(content, viewport) == IF content > viewport THEN content - viewport ELSE 0

Min(x, y) == IF x < y THEN x ELSE y

\* tick flips at every click on a checkbox, so that a click shows in hist even
\* when it leaves the selection as it was
NoEvent == [op |-> "none", shift |-> FALSE, range |-> FALSE, streak |-> 0, tick |-> FALSE]

-----------------------------------------------------------------------------
(* Rendering *)

Rows(rs) == 0..(Len(rs) - 1)

\* Every render builds a new throttled function (throttle(...) in the body of
\* the component).  The one of the previous render keeps its timer: when a
\* trailing call is pending in it, that call will run in the old closure.
Render(changed) ==
    /\ throttle' = IF changed THEN "idle" ELSE throttle
    /\ timers' = IF changed /\ throttle = "pending"
                 THEN timers \cup {RenderEnv} ELSE timers
    /\ Cardinality(timers') <= MaxOrphans

\* the state after onScrollPositionChange has run in the closure env
Invoke(env, menu) ==
    LET r == OnScrollPositionChange(env, menu, scrollTop', scrollLeft') IN
    /\ contextMenuInfo' = r.menu
    /\ scrolledToTop' = r.top
    /\ scrolledToBottom' = r.bottom
    /\ scrolledToLeft' = r.left
    /\ scrolledToRight' = r.right
    /\ calc' = <<[env |-> env, scrollTop |-> scrollTop', scrollLeft |-> scrollLeft']>>

StateChanged ==
    <<contextMenuInfo, flagVars, lastSelectionChangeIndex>>'
        # <<contextMenuInfo, flagVars, lastSelectionChangeIndex>>

-----------------------------------------------------------------------------
(* Initial state: mounted, the effects of the first commit have run *)

Mounted ==
    /\ fetching = FALSE
    /\ tableHeight = 0 /\ scrollViewportHeight = 0
    /\ tableWidth = 0 /\ scrollViewportWidth = 0
    /\ scrollTop = 0 /\ scrollLeft = 0
    /\ scrolledToTop = TRUE /\ scrolledToBottom = TRUE
    /\ scrolledToLeft = TRUE /\ scrolledToRight = TRUE
    /\ contextMenuInfo = <<>>
    /\ lastSelectionChangeIndex = NullIndex
    /\ effects = {}
    /\ throttle = "idle"
    /\ timers = {}
    /\ hist = NoEvent
    /\ calc = <<>>
    /\ sinceInvoke = ThrottleWait
    /\ invokeGap = ThrottleWait
    /\ waitLeft = 0
    /\ staleLeft = <<>>

Init ==
    /\ records \in RecordLists
    /\ selectedRecords \in InitialSelections
    /\ Mounted

InitScroll ==
    /\ records = ScrollRecords
    /\ selectedRecords = <<>>
    /\ Mounted

-----------------------------------------------------------------------------
(* Selection events *)

\* the onSelectionChange of a row: click on the checkbox of the row at index i
RowSelectionChange(i, shiftKey) ==
    LET next == RowSelection(records, selectedRecords, lastSelectionChangeIndex,
                             i, shiftKey) IN
    /\ effects = {}
    /\ i \in Rows(records)
    /\ Len(next) <= MaxSel
    /\ selectedRecords' = next
    /\ lastSelectionChangeIndex' = NextAnchor(lastSelectionChangeIndex, i, shiftKey)
    /\ hist' = [op |-> "row", shift |-> shiftKey,
                range |-> RangeBranch(lastSelectionChangeIndex, shiftKey),
                streak |-> IF /\ hist.op = "row" /\ ~hist.shift /\ ~shiftKey
                              /\ lastSelectionChangeIndex = i
                           THEN 2 ELSE 1,
                tick |-> ~hist.tick, row |-> i]
    /\ calc' = <<>>
    /\ Render(TRUE)
    /\ UNCHANGED <<records, fetching, sizeVars, offsetVars, flagVars,
                   contextMenuInfo, effects>>

\* the onSelectionChange of the header: click on the select-all checkbox
HeaderSelectionChange ==
    LET next == HeaderSelection(records, selectedRecords) IN
    /\ effects = {}
    /\ Len(next) <= MaxSel
    /\ selectedRecords' = next
    /\ hist' = [op |-> "all", shift |-> FALSE, range |-> FALSE,
                streak |-> IF hist.op = "all" THEN 2 ELSE 1, tick |-> ~hist.tick]
    /\ calc' = <<>>
    /\ Render(TRUE)
    /\ UNCHANGED <<records, fetching, sizeVars, offsetVars, flagVars,
                   contextMenuInfo, lastSelectionChangeIndex, effects>>

\* the parent supplies another record list
ReplaceRecords(rs) ==
    /\ effects = {}
    /\ rs # records
    /\ records' = rs
    /\ effects' = IF RecordIdsString(rs) # RecordIdsString(records)
                  THEN effects \cup {"ids"} ELSE effects
    /\ hist' = [op |-> "records", shift |-> FALSE, range |-> FALSE, streak |-> 0,
                tick |-> hist.tick]
    /\ calc' = <<>>
    /\ Render(TRUE)
    /\ UNCHANGED <<selectedRecords, fetching, sizeVars, offsetVars, flagVars,
                   contextMenuInfo, lastSelectionChangeIndex>>

-----------------------------------------------------------------------------
(* Props and measurements *)

\* the parent starts or ends a fetch
SetFetching ==
    /\ effects = {}
    /\ fetching' = ~fetching
    /\ effects' = effects \cup {"fetching", "scroll"}
    /\ calc' = <<>>
    /\ Render(TRUE)
    /\ UNCHANGED <<selVars, sizeVars, offsetVars, flagVars, contextMenuInfo, hist>>

\* useElementSize reports other sizes; the browser keeps the scroll offsets
\* within the content
Resize(l) ==
    /\ effects = {}
    /\ l # Layout(tableHeight, scrollViewportHeight, tableWidth, scrollViewportWidth)
    /\ tableHeight' = l.tableHeight
    /\ scrollViewportHeight' = l.scrollViewportHeight
    /\ tableWidth' = l.tableWidth
    /\ scrollViewportWidth' = l.scrollViewportWidth
    /\ scrollTop' = Min(scrollTop, MaxOffset(l.tableHeight, l.scrollViewportHeight))
    /\ scrollLeft' = Min(scrollLeft, MaxOffset(l.tableWidth, l.scrollViewportWidth))
    /\ effects' = effects \cup {"scroll"}
    /\ calc' = <<>>
    /\ Render(TRUE)
    /\ UNCHANGED <<selVars, fetching, flagVars, contextMenuInfo, hist>>

\* The passive effects of the last commit, in the order of their declaration.
\* React flushes them before it renders again and before it handles the next
\* event, so every other step waits for them.
RunEffects ==
    LET menu == IF "fetching" \in effects /\ fetching THEN <<>> ELSE contextMenuInfo IN
    /\ effects # {}
    /\ effects' = {}
    /\ UNCHANGED <<records, selectedRecords, fetching, sizeVars, offsetVars, hist>>
    /\ IF "scroll" \in effects
       THEN Invoke(RenderEnv, menu)
       ELSE /\ contextMenuInfo' = menu
            /\ calc' = <<>>
            /\ UNCHANGED flagVars
    /\ lastSelectionChangeIndex' =
           IF "ids" \in effects THEN NullIndex ELSE lastSelectionChangeIndex
    /\ Render(StateChanged)

\* the parent renders again with the same props
Rerender ==
    /\ effects = {}
    /\ throttle # "idle"
    /\ calc' = <<>>
    /\ Render(TRUE)
    /\ UNCHANGED <<selVars, fetching, sizeVars, offsetVars, flagVars,
                   contextMenuInfo, effects, hist>>

-----------------------------------------------------------------------------
(* Scroll events and the throttled recomputation *)

\* A scroll event of the viewport calls the throttled function of the current
\* render.  throttle: "idle" no timer runs and the wait has elapsed; "waiting"
\* the timer runs and no call came since the last invocation; "pending" the
\* timer runs and a call waits for the trailing edge; "recent" no timer runs
\* but the trailing invocation is less than the wait ago.
ScrollEvent(top, left) ==
    /\ effects = {}
    /\ <<top, left>> # <<scrollTop, scrollLeft>>
    /\ top <= MaxOffset(tableHeight, scrollViewportHeight)
    /\ left <= MaxOffset(tableWidth, scrollViewportWidth)
    /\ scrollTop' = top
    /\ scrollLeft' = left
    /\ UNCHANGED <<selVars, fetching, sizeVars, effects, hist>>
    /\ IF throttle = "idle"
       THEN /\ Invoke(RenderEnv, contextMenuInfo)
            /\ throttle' = IF StateChanged THEN "idle" ELSE "waiting"
            /\ timers' = timers
       ELSE /\ throttle' = "pending"
            /\ calc' = <<>>
            /\ UNCHANGED <<flagVars, contextMenuInfo, timers>>

\* the timer of the current throttled function expires with no call pending
TimerExpired ==
    /\ effects = {}
    /\ throttle = "waiting"
    /\ throttle' = "idle"
    /\ calc' = <<>>
    /\ UNCHANGED <<selVars, fetching, sizeVars, offsetVars, flagVars,
                   contextMenuInfo, effects, timers, hist>>

\* the timer of the current throttled function expires with a call pending
TrailingEdge ==
    /\ effects = {}
    /\ throttle = "pending"
    /\ UNCHANGED <<selVars, fetching, sizeVars, offsetVars, effects, hist>>
    /\ Invoke(RenderEnv, contextMenuInfo)
    /\ throttle' = IF StateChanged THEN "idle" ELSE "recent"
    /\ timers' = timers

\* the wait elapses after a trailing invocation
WaitElapsed ==
    /\ effects = {}
    /\ throttle = "recent"
    /\ throttle' = "idle"
    /\ calc' = <<>>
    /\ UNCHANGED <<selVars, fetching, sizeVars, offsetVars, flagVars,
                   contextMenuInfo, effects, timers, hist>>

\* the timer of the throttled function of an earlier render expires: its
\* pending call runs onScrollPositionChange in the closure of that render
StaleTrailingEdge(env) ==
    /\ effects = {}
    /\ env \in timers
    /\ UNCHANGED <<selVars, fetching, sizeVars, offsetVars, effects, hist>>
    /\ Invoke(env, contextMenuInfo)
    /\ throttle' = IF StateChanged THEN "idle" ELSE throttle
    /\ timers' = IF StateChanged /\ throttle = "pending"
                 THEN (timers \ {env}) \cup {RenderEnv} ELSE timers \ {env}

-----------------------------------------------------------------------------
(* Context menu *)

\* rowContextMenu && !disabled(record) ? setContextMenuInfo : undefined
OnContextMenu(record) ==
    IF Get(record) \in MenuDisabledIds THEN <<>> ELSE <<"setContextMenuInfo">>

\* where the pointer is at a right-click: the top and left of the menu
MenuPositions == {[top |-> 10, left |-> 20], [top |-> 30, left |-> 20]}

\* right-click at pos on the row at index i: setContextMenuInfo({ top, left, record })
RowContextMenuAt(i, pos) ==
    /\ effects = {}
    /\ i \in Rows(records)
    /\ OnContextMenu(records[i + 1]) # <<>>
    /\ contextMenuInfo' = <<[top |-> pos.top, left |-> pos.left,
                             record |-> records[i + 1]]>>
    /\ contextMenuInfo' # contextMenuInfo
    /\ calc' = <<>>
    /\ Render(TRUE)
    /\ UNCHANGED <<selVars, fetching, sizeVars, offsetVars, flagVars, effects, hist>>

\* right-click on the row at index i, the pointer at one place
RowContextMenu(i) == RowContextMenuAt(i, [top |-> 10, left |-> 20])

\* onDestroy of DataTableRowMenu
MenuDestroy ==
    /\ effects = {}
    /\ contextMenuInfo # <<>>
    /\ contextMenuInfo' = <<>>
    /\ calc' = <<>>
    /\ Render(TRUE)
    /\ UNCHANGED <<selVars, fetching, sizeVars, offsetVars, flagVars, effects, hist>>

\* rowContextMenu.items: the keys of the items, and the records for which an
\* item is hidden or disabled
MenuItems == {"edit", "delete"}
ItemHidden(key, record) == key = "delete" /\ Get(record) = Id("c")
ItemDisabled(key, record) == key = "edit" /\ Get(record) = Id("c")

\* The calls the onClick of an item makes, in their order; record is the one
\* destructured from contextMenuInfo when the item was rendered.
ItemOnClickActionFirst(key, record) ==
    << [fn |-> "onClick", key |-> key, arg |-> <<record>>],
       [fn |-> "setContextMenuInfo", key |-> key, arg |-> <<>>] >>

ItemOnClick(key, record) ==
    << [fn |-> "setContextMenuInfo", key |-> key, arg |-> <<>>],
       [fn |-> "onClick", key |-> key, arg |-> <<record>>] >>

\* the state that the calls of a handler leave: the argument of the last
\* setContextMenuInfo, the state as it was when there is none
RECURSIVE MenuAfter(_, _)
MenuAfter(calls, menu) ==
    IF calls = <<>> THEN menu
    ELSE MenuAfter(Tail(calls),
                   IF Head(calls).fn = "setContextMenuInfo" THEN Head(calls).arg ELSE menu)

\* click on the item key of the open menu; a hidden item is not rendered and
\* the button of a disabled one takes no click
MenuItemClick(key) ==
    /\ effects = {}
    /\ contextMenuInfo # <<>>
    /\ ~ItemHidden(key, contextMenuInfo[1].record)
    /\ ~ItemDisabled(key, contextMenuInfo[1].record)
    /\ LET calls == ItemOnClick(key, contextMenuInfo[1].record) IN
       /\ contextMenuInfo' = MenuAfter(calls, contextMenuInfo)
       /\ hist' = [op |-> "item", shift |-> FALSE, range |-> FALSE, streak |-> 0,
                   tick |-> ~hist.tick, calls |-> calls]
    /\ calc' = <<>>
    /\ Render(TRUE)
    /\ UNCHANGED <<selVars, fetching, sizeVars, offsetVars, flagVars, effects>>

-----------------------------------------------------------------------------
(* Specifications *)

\* the specifications that leave time out keep the clock where it is
Untimed == UNCHANGED timeVars

\* selection: row and header checkboxes, replacement of the record list
Next ==
    \/ \E i \in Rows(records), shiftKey \in BOOLEAN : RowSelectionChange(i, shiftKey) /\ Untimed
    \/ HeaderSelectionChange /\ Untimed
    \/ \E rs \in RecordLists : ReplaceRecords(rs) /\ Untimed
    \/ RunEffects /\ Untimed

Spec == Init /\ [][Next]_vars

\* scroll flags and context menu: fetches, measurements, scrolling, timers
NextScroll ==
    \/ SetFetching /\ Untimed
    \/ \E l \in Layouts : Resize(l) /\ Untimed
    \/ RunEffects /\ Untimed
    \/ Rerender /\ Untimed
    \/ \E top \in ScrollTops, left \in ScrollLefts : ScrollEvent(top, left) /\ Untimed
    \/ TimerExpired /\ Untimed
    \/ TrailingEdge /\ Untimed
    \/ WaitElapsed /\ Untimed
    \/ \E env \in timers : StaleTrailingEdge(env) /\ Untimed
    \/ \E i \in Rows(records) : RowContextMenu(i) /\ Untimed
    \/ MenuDestroy /\ Untimed

SpecScroll == InitScroll /\ [][NextScroll]_vars

\* context menu next to selection and data: right-clicks, item clicks,
\* checkboxes, replacement of the record list, fetches
MenuRecordLists == {<<recA, recB, recC>>, <<recB, recC>>}

InitMenu ==
    /\ records \in MenuRecordLists
    /\ selectedRecords = <<>>
    /\ Mounted

NextMenu ==
    \/ \E i \in Rows(records), shiftKey \in BOOLEAN : RowSelectionChange(i, shiftKey) /\ Untimed
    \/ HeaderSelectionChange /\ Untimed
    \/ \E rs \in MenuRecordLists : ReplaceRecords(rs) /\ Untimed
    \/ SetFetching /\ Untimed
    \/ RunEffects /\ Untimed
    \/ \E i \in Rows(records), pos \in MenuPositions : RowContextMenuAt(i, pos) /\ Untimed
    \/ MenuDestroy /\ Untimed
    \/ \E key \in MenuItems : MenuItemClick(key) /\ Untimed

SpecMenu == InitMenu /\ [][NextMenu]_vars

\* selection, from a selection in which every key occurs once
UniqueSelections == {<<>>, <<recE, recNoId>>}

InitUnique ==
    /\ records \in RecordLists
    /\ selectedRecords \in UniqueSelections
    /\ Mounted

SpecUnique == InitUnique /\ [][Next]_vars

-----------------------------------------------------------------------------
(* The throttle with a clock *)

Max(x, y) == IF x > y THEN x ELSE y

\* What a step does to the clock.  invoked: a scroll-triggered recomputation
\* has run in the step; own: it ran in the throttled function of the render
\* of the step; kept: the closures of earlier renders whose timers go on.  A
\* throttled function invokes at most once in ThrottleWait; a render builds a
\* new one, which has not invoked yet, and the timer of the old one goes on
\* when a call is pending in it.
Timed(invoked, own, kept) ==
    /\ sinceInvoke' = IF invoked THEN 0 ELSE sinceInvoke
    /\ invokeGap' = IF invoked THEN sinceInvoke ELSE invokeGap
    /\ waitLeft' = IF throttle' = "idle" THEN 0
                   ELSE IF own THEN ThrottleWait ELSE waitLeft
    /\ staleLeft' = [env \in timers' |->
                       IF env \in kept THEN staleLeft[env] ELSE waitLeft]

\* TickMs pass with no timer due
Tick ==
    /\ effects = {}
    /\ throttle # "idle" => waitLeft > 0
    /\ \A env \in timers : staleLeft[env] > 0
    /\ sinceInvoke < ThrottleWait \/ throttle # "idle" \/ timers # {}
    /\ sinceInvoke' = Min(ThrottleWait, sinceInvoke + TickMs)
    /\ waitLeft' = Max(0, waitLeft - TickMs)
    /\ staleLeft' = [env \in timers |-> Max(0, staleLeft[env] - TickMs)]
    /\ calc' = <<>>
    /\ UNCHANGED <<selVars, fetching, sizeVars, offsetVars, flagVars, contextMenuInfo,
                   effects, throttle, timers, hist, invokeGap>>

NextTimed ==
    \/ SetFetching /\ Timed(FALSE, FALSE, timers)
    \/ \E l \in Layouts : Resize(l) /\ Timed(FALSE, FALSE, timers)
    \/ RunEffects /\ Timed(FALSE, FALSE, timers)
    \/ Rerender /\ Timed(FALSE, FALSE, timers)
    \/ \E top \in ScrollTops, left \in ScrollLefts :
          ScrollEvent(top, left) /\ Timed(throttle = "idle", throttle = "idle", timers)
    \/ waitLeft = 0 /\ TimerExpired /\ Timed(FALSE, FALSE, timers)
    \/ waitLeft = 0 /\ TrailingEdge /\ Timed(TRUE, TRUE, timers)
    \/ waitLeft = 0 /\ WaitElapsed /\ Timed(FALSE, FALSE, timers)
    \/ \E env \in timers :
          staleLeft[env] = 0 /\ StaleTrailingEdge(env) /\ Timed(TRUE, FALSE, timers \ {env})
    \/ Tick

SpecTimed == InitScroll /\ [][NextTimed]_vars

-----------------------------------------------------------------------------
(* Selection claims, checked under Spec *)

KeySet(list) == {Get(list[n]) : n \in 1..Len(list)}

\* the keys of the visible records rs that the selection sel holds
KeysIn(rs, sel) == KeySet(sel) \cap KeySet(rs)

\* this step is a click on a row checkbox
RowStep == hist'.op = "row" /\ hist'.tick # hist.tick

\* this step is a click on the header checkbox
AllStep == hist'.op = "all" /\ hist'.tick # hist.tick

\* C1: a plain toggle of a row, committed by the parent, followed by a second
\* plain toggle of the same row gives a selection with the key set it had
\* before the first toggle.
C1_ToggleTwice ==
    [][(RowStep /\ ~hist'.shift) =>
          KeySet(RowSelection(records', selectedRecords', lastSelectionChangeIndex',
                              lastSelectionChangeIndex', FALSE))
              = KeySet(selectedRecords)]_vars

\* a row has been plainly toggled twice in succession, and is selected again
C1_Witness ==
    /\ hist.op = "row" /\ ~hist.shift /\ hist.streak = 2
    /\ Len(selectedRecords) > 1
    /\ selectedOf(records, selectedRecords, lastSelectionChangeIndex)

\* C2 as stated: toggle-all twice gives back, for every selection, the keys of
\* the visible records that were selected before.
C2_Original ==
    [][AllStep =>
          KeysIn(records, HeaderSelection(records', selectedRecords'))
              = KeysIn(records, selectedRecords)]_vars

\* C2 amended: toggle-all twice gives back the selected keys of the visible
\* records when none or all of them were selected; when only some were
\* selected, no visible record is selected after the second invocation.
C2_ToggleAllTwice ==
    [][AllStep =>
          KeysIn(records, HeaderSelection(records', selectedRecords'))
              = IF KeysIn(records, selectedRecords) = KeySet(records)
                THEN KeySet(records) ELSE {}]_vars

\* toggle-all has run twice in succession and every visible record is selected again
C2_Witness ==
    /\ hist.op = "all" /\ hist.streak = 2
    /\ records # <<>>
    /\ KeysIn(records, selectedRecords) = KeySet(records)

\* C3: a shift-click on row cc with the anchor at index lastSelectionChangeIndex
\* gives every record between the two indexes (inclusive, in either order) the
\* opposite of the selection state row cc had, and leaves the membership of
\* every other key as it was.
C3_ShiftRange ==
    [][(RowStep /\ hist'.range) =>
          LET cc == lastSelectionChangeIndex'
              lo == IF lastSelectionChangeIndex < cc THEN lastSelectionChangeIndex ELSE cc
              hi == IF lastSelectionChangeIndex < cc THEN cc ELSE lastSelectionChangeIndex
              was == selectedOf(records, selectedRecords, cc)
              inside == {Get(records[n + 1]) : n \in (lo..hi) \cap Rows(records)}
          IN  /\ \A n \in (lo..hi) \cap Rows(records) :
                     selectedOf(records, selectedRecords', n) = ~was
              /\ \A k \in (KeySet(selectedRecords) \cup KeySet(selectedRecords')) \ inside :
                     (k \in KeySet(selectedRecords')) = (k \in KeySet(selectedRecords))]_vars

\* click on row 1, then shift-click on row 4: exactly rows 1 to 4 are selected
C3_Witness ==
    /\ records = FiveRecords
    /\ hist.op = "row" /\ hist.range
    /\ lastSelectionChangeIndex = 4
    /\ selectedRecords = <<recB, recC, recD, recE>>

\* 5 records, only row 0 selected, by a shift-click on row 0 that found no
\* anchor: the selection was empty before that click
ScenarioAfterFirstShiftClick ==
    /\ records = FiveRecords
    /\ selectedRecords = <<recA>>
    /\ lastSelectionChangeIndex = 0
    /\ hist.op = "row" /\ hist.shift /\ ~hist.range

\* ... and this step is the shift-click on row 3
ScenarioSecondShiftClick ==
    /\ ScenarioAfterFirstShiftClick
    /\ RowStep /\ hist'.shift
    /\ lastSelectionChangeIndex' = 3

\* C4 as stated: after shift-click on row 0 and shift-click on row 3, from no
\* selection and no anchor, the second click has toggled row 3 alone.
C4_Original ==
    [][ScenarioSecondShiftClick =>
          /\ ~hist'.range
          /\ KeySet(selectedRecords') = {Get(recA), Get(recD)}]_vars

\* C4 amended: the shift-click on row 0 finds no anchor, toggles row 0 alone
\* and makes row 0 the anchor; the shift-click on row 3 then applies the range
\* 0..3, so that rows 0, 1, 2 and 3 are selected.
C4_ShiftClickSetsAnchor ==
    [][/\ (RowStep /\ hist'.shift /\ lastSelectionChangeIndex = NullIndex) =>
              /\ ~hist'.range
              /\ lastSelectionChangeIndex' \in Rows(records)
              /\ selectedRecords' = RowSelection(records, selectedRecords, NullIndex,
                                                 lastSelectionChangeIndex', FALSE)
       /\ ScenarioSecondShiftClick =>
              /\ hist'.range
              /\ selectedRecords' = <<recA, recB, recC, recD>>]_vars

\* the state after the two shift-clicks of the scenario
C4_Witness ==
    /\ records = FiveRecords
    /\ hist.op = "row" /\ hist.shift /\ hist.range
    /\ lastSelectionChangeIndex = 3
    /\ selectedRecords = <<recA, recB, recC, recD>>

\* C5: once the record list has been replaced by one with another sequence of
\* keys (any two lists of RecordLists differ in it) and the effects have run,
\* the anchor is unset.
C5_AnchorReset ==
    (hist.op = "records" /\ effects = {}) => lastSelectionChangeIndex = NullIndex

-----------------------------------------------------------------------------
(* Scroll-flag and context-menu claims, checked under SpecScroll *)

\* a length is a whole number of pixels
WholePx(x) == x % Px = 0

\* C6: after a recomputation that read a table height not above the viewport
\* height, at-top and at-bottom are both true whatever the scroll offset, and
\* neither the header shadow nor the bottom shadow shows.
C6_NoVerticalOverflow ==
    (calc # <<>> /\ calc[1].env.tableHeight <= calc[1].env.scrollViewportHeight) =>
        /\ scrolledToTop /\ scrolledToBottom
        /\ ~headerBottomShadowVisible /\ ~bottomShadowVisible

\* content height 500, viewport height 500, no fetch
C6_Witness ==
    /\ calc # <<>>
    /\ ~calc[1].env.fetching
    /\ calc[1].env.tableHeight = 500 * Px
    /\ calc[1].env.scrollViewportHeight = 500 * Px
    /\ scrolledToTop /\ scrolledToBottom

\* C7: after a recomputation that read no fetch, whole-pixel lengths and a
\* table height above the viewport height, at-top holds iff scrollTop = 0 and
\* at-bottom holds iff tableHeight - scrollTop = viewport height.
C7_VerticalOverflow ==
    (/\ calc # <<>>
     /\ ~calc[1].env.fetching
     /\ calc[1].env.tableHeight > calc[1].env.scrollViewportHeight
     /\ WholePx(calc[1].env.tableHeight)
     /\ WholePx(calc[1].env.scrollViewportHeight)
     /\ WholePx(calc[1].scrollTop)) =>
        /\ scrolledToTop = (calc[1].scrollTop = 0)
        /\ scrolledToBottom =
               (calc[1].env.tableHeight - calc[1].scrollTop
                    = calc[1].env.scrollViewportHeight)

\* content height 600, viewport height 500, scrollTop 100: at bottom, not at top
C7_Witness ==
    /\ calc # <<>>
    /\ ~calc[1].env.fetching
    /\ calc[1].env.tableHeight = 600 * Px
    /\ calc[1].env.scrollViewportHeight = 500 * Px
    /\ calc[1].scrollTop = 100 * Px
    /\ scrolledToBottom /\ ~scrolledToTop

\* C8: after a recomputation that read a table width not above the viewport
\* width, at-left and at-right are both true; after one that read no fetch,
\* whole-pixel lengths and a table width above the viewport width, at-left
\* holds iff scrollLeft = 0 and at-right iff tableWidth - scrollLeft = viewport
\* width.
C8_HorizontalLikeVertical ==
    calc # <<>> =>
        IF calc[1].env.tableWidth <= calc[1].env.scrollViewportWidth
        THEN scrolledToLeft /\ scrolledToRight
        ELSE (/\ ~calc[1].env.fetching
              /\ WholePx(calc[1].env.tableWidth)
              /\ WholePx(calc[1].env.scrollViewportWidth)
              /\ WholePx(calc[1].scrollLeft)) =>
                 /\ scrolledToLeft = (calc[1].scrollLeft = 0)
                 /\ scrolledToRight =
                        (calc[1].env.tableWidth - calc[1].scrollLeft
                             = calc[1].env.scrollViewportWidth)

\* C9: while a fetch is in flight and the effects of the change of fetching
\* have run, all four flags are true.
C9_FlagsForcedWhileFetching ==
    (fetching /\ effects = {}) =>
        scrolledToTop /\ scrolledToBottom /\ scrolledToLeft /\ scrolledToRight

\* C10: while a fetch is in flight and the effects of the change of fetching
\* have run, no context menu is open.
C10_NoMenuWhileFetching ==
    (fetching /\ effects = {}) => contextMenuInfo = <<>>

-----------------------------------------------------------------------------
(* Context menu claims, checked under SpecMenu *)

ItemStep == hist'.op = "item" /\ hist'.tick # hist.tick

\* C11: when a menu is open and a click on a row checkbox (plain or with
\* shift) or on the select-all checkbox commits a selection, the menu is
\* closed afterwards.
C11_SelectionClosesMenu ==
    [][(contextMenuInfo # <<>> /\ (RowStep \/ AllStep)) => contextMenuInfo' = <<>>]_vars

\* C12: at most one menu is open; when the record list is replaced by another
\* one, with or without a fetch, a menu that was open is closed once the
\* effects of that commit have run; a right-click that opens a menu while one
\* is open leaves the one menu of the new record and position.
C12_RefreshClosesMenu ==
    [][ /\ Len(contextMenuInfo') <= 1
        /\ (records' # records /\ contextMenuInfo # <<>> /\ effects' = {})
               => contextMenuInfo' = <<>>
        /\ (hist.op = "records" /\ effects # {} /\ effects' = {})
               => contextMenuInfo' = <<>>
        /\ (contextMenuInfo # <<>> /\ contextMenuInfo' # <<>>
                /\ contextMenuInfo' # contextMenuInfo)
               => /\ Len(contextMenuInfo') = 1
                  /\ contextMenuInfo'[1].record \in {records[n] : n \in 1..Len(records)}
      ]_vars

\* the places of the calls of fn in a list of calls
CallsOf(calls, fn) == {n \in 1..Len(calls) : calls[n].fn = fn}

\* C13: a click on an item of the open menu sets the menu state to closed
\* before it invokes the action of the item, and invokes that action exactly
\* once, with the record the menu was opened for.
C13_ItemClick ==
    [][ItemStep =>
          LET calls == hist'.calls
              actions == CallsOf(calls, "onClick")
              closes == {n \in CallsOf(calls, "setContextMenuInfo") : calls[n].arg = <<>>}
          IN /\ Cardinality(actions) = 1
             /\ \A n \in actions :
                   /\ calls[n].arg = <<contextMenuInfo[1].record>>
                   /\ \E k \in closes : k < n
                   /\ MenuAfter(SubSeq(calls, 1, n - 1), contextMenuInfo) = <<>>
             /\ contextMenuInfo' = <<>>
       ]_vars

\* the menu was opened for record a, the list was then replaced by one
\* without a, and the click on "delete" has called the action with a
C13_Witness ==
    /\ hist.op = "item"
    /\ hist.calls[2] = [fn |-> "onClick", key |-> "delete", arg |-> <<recA>>]
    /\ records = <<recB, recC>>
    /\ contextMenuInfo = <<>>

-----------------------------------------------------------------------------
(* Throttle claims *)

\* a scroll event: the offsets change and the measurements do not
ScrollStep == offsetVars' # offsetVars /\ sizeVars' = sizeVars

\* no recomputation is still to come: the effects have run, no call waits for
\* a trailing edge, in the throttled function of this render or of an earlier one
Settled == effects = {} /\ throttle # "pending" /\ timers = {}

\* the flags that the current offsets, measurements and fetching give
DerivedFlags ==
    LET r == OnScrollPositionChange(RenderEnv, contextMenuInfo, scrollTop, scrollLeft)
    IN  <<r.top, r.bottom, r.left, r.right>>

\* C14: a scroll event that finds the throttle idle recomputes the flags at
\* once, and when the scroll events have stopped and every pending
\* recomputation has run, the four flags are the ones derived from the last
\* offsets and the current measurements and fetching, whatever renders and
\* resizes came in between.
C14_FlagsFollowLastScroll ==
    [][ /\ (ScrollStep /\ throttle = "idle") => calc' # <<>>
        /\ Settled' => flagVars' = DerivedFlags'
      ]_vars

\* C15: two recomputations triggered by scroll events are never less than
\* 200 ms apart, whatever renders come between the scroll events.
C15_OncePerWait == invokeGap >= ThrottleWait

-----------------------------------------------------------------------------
(* Further selection claims *)

\* C16: a visible record without a value at the id accessor is not reported
\* as selected, whatever the selection list holds, records without key included.
C16_MissingKeyNotSelected ==
    \A i \in Rows(records) :
        ~Get(records[i + 1]).def => ~selectedOf(records, selectedRecords, i)

\* C17: the list that a click on the select-all checkbox hands over holds the
\* same keys outside the visible records as the selection did, and of the
\* keys of the visible records it holds all (when not all were selected) or
\* none (when all were selected).
C17_ToggleAllFrame ==
    [][AllStep =>
          /\ KeySet(selectedRecords') \ KeySet(records)
                = KeySet(selectedRecords) \ KeySet(records)
          /\ KeysIn(records, selectedRecords')
                = IF allRecordsSelected THEN {} ELSE KeySet(records)
       ]_vars

\* the select-all checkbox has cleared an all-selected page and the selection
\* still holds a record of another page
C17_Witness ==
    /\ hist.op = "all"
    /\ records # <<>>
    /\ selectedRecords # <<>>
    /\ KeysIn(records, selectedRecords) = {}

NoDuplicateKeys(sel) ==
    \A m, n \in 1..Len(sel) : Get(sel[m]) = Get(sel[n]) => m = n

\* C18: from a selection without two records of the same key, no sequence of
\* row clicks, shift-clicks and select-all clicks, with replacements of the
\* record list between them, leads to a selection with two records of the
\* same key.
C18_NoDuplicateKeys == NoDuplicateKeys(selectedRecords)

\* a shift-click has added the rows up to an anchor that was selected already
C18_Witness ==
    /\ hist.op = "row" /\ hist.range
    /\ selectedRecords = <<recA, recB, recC>>
    /\ lastSelectionChangeIndex = 2

\* C19: in every state in which a user event can be handled, the anchor is
\* unset or an index of the current record list; a click on a row checkbox,
\* plain or with shift, makes it the index of that row, and nothing else gives
\* it a value: a click on the select-all checkbox leaves it as it is.
C19_AnchorValid ==
    [][ /\ RowStep => lastSelectionChangeIndex' = hist'.row
        /\ AllStep => lastSelectionChangeIndex' = lastSelectionChangeIndex
        /\ lastSelectionChangeIndex' # lastSelectionChangeIndex
               => RowStep \/ lastSelectionChangeIndex' = NullIndex
        /\ effects' = {}
               => \/ lastSelectionChangeIndex' = NullIndex
                  \/ lastSelectionChangeIndex' \in Rows(records')
      ]_vars

====
